---- MODULE Spec2Model ----
(***************************************************************************)
(* Model of app.py: a Streamlit script that sends an uploaded school        *)
(* handout to a remote inference service (analyze_file), keeps the parsed   *)
(* rows in st.session_state['analyzed_data'], lets the user edit them and   *)
(* posts one page per row to a remote database (send_to_notion).            *)
(*                                                                         *)
(* Text is modelled as a sequence of tokens, one token per character or     *)
(* fixed literal of the source; string concatenation is \o.                 *)
(***************************************************************************)
EXTENDS Integers, Sequences, FiniteSets

\* ------------------------------------------------------------------ bounds
\* Number of button clicks and editor edits in one behaviour.
MaxClicks == 3

\* ---------------------------------------------------------- Python values
\* None and a list, as session_state['analyzed_data'] and analyze_file's
\* return value hold them.
NoneVal == [kind |-> "None", rows |-> <<>>]

List(rows) == [kind |-> "list", rows |-> rows]

\* Python truthiness of None / a list: `if result:`, `if analyzed_data:`.
Truthy(v) == v.kind = "list" /\ Len(v.rows) > 0

\* ------------------------------------------------------------ text tokens
ICON_BAG == "U+1F392"

ICON_CAL == "U+1F5D3"

SPACE == " "

SEP == "U+3001"

TAG_SCHOOL == <<"U+5B66", "U+6821">>

ITEMS_PREFIX == <<"U+6301", "U+3061", "U+7269", ":", " ">>

NOTE_PREFIX == <<"U+5099", "U+8003", ":", " ">>

\* ---------------------------------------------------------- EventRecords
\* A dict key that is missing, holds null, or holds a value.
Absent == [kind |-> "absent", val |-> <<>>]

Null == [kind |-> "null", val |-> <<>>]

Val(v) == [kind |-> "val", val |-> v]

\* {event: 遠足, date: 2026-04-10, items: [水筒, 帽子], note: null}
Ensoku ==
    [event |-> <<"U+9060", "U+8DB3">>, date |-> <<"2026-04-10">>,
     items |-> Val(<< <<"U+6C34", "U+7B52">>, <<"U+5E3D", "U+5B50">> >>),
     note |-> Null]

\* {event: 保護者会, date: 2026-05-01, items: [], note: 15時開始}
Hogosha ==
    [event |-> <<"U+4FDD", "U+8B77", "U+8005", "U+4F1A">>, date |-> <<"2026-05-01">>,
     items |-> Val(<< >>),
     note |-> Val(<<"1", "5", "U+6642", "U+958B", "U+59CB">>)]

\* {event: 運動会, date: 2026-06-06}: no items key, no note key
Undokai ==
    [event |-> <<"U+904B", "U+52D5", "U+4F1A">>, date |-> <<"2026-06-06">>,
     items |-> Absent, note |-> Absent]

\* A row of the record list: the dict, and the analyzer call and position
\* that produced it (origin is bookkeeping, not a key of the dict).
Row(rec, src, idx) ==
    [event |-> rec.event, date |-> rec.date, items |-> rec.items,
     note |-> rec.note, origin |-> <<src, idx>>]

\* ------------------------------------------------- send_to_notion: payload
\* item.get('items') truthiness (line 97): the key is present and the list
\* is not empty.  (items: null is outside EventRecord.)
HasItems(item) == item.items.kind = "val" /\ Len(item.items.val) > 0

\* The bug a reader could make of line 97: testing the key, not the list.
IconOfKeyPresent(item) == IF item.items.kind = "val" THEN ICON_BAG ELSE ICON_CAL

\* icon = "🎒" if item.get('items') else "🗓️"
IconOf(item) == IF HasItems(item) THEN ICON_BAG ELSE ICON_CAL

\* item.get('items', [])
ItemsOrEmpty(item) == IF item.items.kind = "val" THEN item.items.val ELSE << >>

\* "、".join(list)
RECURSIVE Join(_)
Join(list) ==
    IF list = << >> THEN << >>
    ELSE IF Len(list) = 1 THEN list[1]
    ELSE list[1] \o <<SEP>> \o Join(Tail(list))

\* item.get('note') or ""
NoteOrEmpty(item) ==
    IF item.note.kind = "val" /\ Len(item.note.val) > 0 THEN item.note.val ELSE << >>

\* The create-page request body of lines 98-124 (parent and block types are
\* fixed and left out).
Payload(item) ==
    [title     |-> <<IconOf(item), SPACE>> \o item.event,
     date      |-> item.date,
     tags      |-> <<TAG_SCHOOL>>,
     callout   |-> ITEMS_PREFIX \o Join(ItemsOrEmpty(item)),
     paragraph |-> NOTE_PREFIX \o NoteOrEmpty(item)]

\* res.status_code == 200
HTTP_OK == 200

\* Status codes the remote API answers with.
StatusCodes == {HTTP_OK, 400}

IsSuccess(status) == status = HTTP_OK

\* ---------------------------------------------------- analyze_file: pieces
FileStates == {"PROCESSING", "ACTIVE", "FAILED"}

\* while uploaded_file.state.name == "PROCESSING"
IsProcessing(s) == s = "PROCESSING"

\* The bug of dropping the FAILED test of line 46.
IsFailedNever(s) == FALSE

\* if uploaded_file.state.name == "FAILED"
IsFailed(s) == s = "FAILED"

\* st.error texts of analyze_file; << >> is "no error shown".
NoMsg == << >>

FailedMsg == <<"GOOGLE_SIDE_PROCESSING_FAILED">>

QuotaMsg == <<"API_LIMIT_WAIT_A_MINUTE_AND_RETRY">>

ErrorMsg(e) == <<"ERROR_OCCURRED", e>>

\* What one call of analyze_file gives its caller and the page: the return
\* value and the st.error it showed.
Outcome(ret, msg) == [ret |-> ret, msg |-> msg]

Exceptions == {"ResourceExhausted", "OtherError"}

\* The bug of letting the generic handler take every exception.
CatchGenericOnly(exc) == Outcome(NoneVal, ErrorMsg(exc))

\* except ResourceExhausted / except Exception as e (lines 68-73)
Catch(exc) ==
    IF exc = "ResourceExhausted" THEN Outcome(NoneVal, QuotaMsg)
    ELSE Outcome(NoneVal, ErrorMsg(exc))

CauseOf(exc) == IF exc = "ResourceExhausted" THEN "quota" ELSE "unknown"

\* Reply texts of the generation request, and json.loads of each: not JSON,
\* null, [], a two-row array.
Responses == {"not json", "null", "[]", "[ensoku, hogosha]"}

ParseFails(text) == text = "not json"

Parse(text, src) ==
    CASE text = "null" -> NoneVal
      [] text = "[]" -> List(<< >>)
      [] OTHER -> List(<<Row(Ensoku, src, 1), Row(Hogosha, src, 2)>>)

\* ------------------------------------------------------------- the page
NoFile == << >>

\* Names the uploader can hold (type=['png','jpg','jpeg','pdf']).
Files == {<<"print", ".pdf">>, <<"photo", ".jpg">>}

\* "application/pdf" if uploaded_file.name.endswith(".pdf") else "image/jpeg"
MimeOf(name) ==
    IF name[Len(name)] = ".pdf" THEN "application/pdf" ELSE "image/jpeg"

MimeTypes == {"application/pdf", "image/jpeg"}

\* Names tempfile.NamedTemporaryFile can hand out: /tmp/tmp1, /tmp/tmp2, ...
\* Every name is free again after os.unlink (line 166).
TmpPaths == 1..MaxClicks

\* The bug of clearing the list when an analysis gives nothing.
StoreResultOrClear(result, held) == IF Truthy(result) THEN result ELSE NoneVal

\* if result: st.session_state['analyzed_data'] = result   (lines 161-162)
StoreResult(result, held) == IF Truthy(result) THEN result ELSE held

\* ------------------------------------------------------------------ state
VARIABLES
    uploaded_file,   \* the file_uploader's file name, NoFile when empty
    analyzed_data,   \* st.session_state['analyzed_data']
    edited_data,     \* rows the data_editor returns (analyzed_data + edits)
    cache,           \* st.cache_data store of analyze_file, by (path, mime)
    pc,              \* "idle": no script run in progress; else the line reached
    tmp_path,        \* tmp_path of the running analyze handler
    handle_state,    \* uploaded_file.state.name inside analyze_file
    remote_state,    \* the state the remote service holds for the handle
    data_list,       \* send_to_notion's argument
    i,               \* 1-based position of send_to_notion's loop
    success_count,   \* send_to_notion's success_count
    count,           \* the handler's count (line 178)
    events,          \* progress notifications and create-page calls of
                     \* send_to_notion, in the order they happen
    submitResult,    \* "none", "running", "returned" or "raised"
    lastAction,      \* the user action that started the current / last run
    preData,         \* analyzed_data when the analyze click was made
    lastOutcome,     \* Outcome of the analyze_file call
    lastCause,       \* what the remote service did in that call
    genCount,        \* generation requests issued by that call
    sent,            \* origins of the rows whose create-page call the remote
                     \* API has answered
    resent,          \* a create-page call was issued for a row of an analyzer
                     \* call that the remote API had already answered for
    uploads,         \* upload calls that returned a handle, per uploaded file
    discarded,       \* a discard happened and no submit click since
    nClicks          \* button clicks and edits so far

vars == <<uploaded_file, analyzed_data, edited_data, cache, pc, tmp_path,
          handle_state, remote_state, data_list, i, success_count, count,
          events, submitResult, lastAction, preData, lastOutcome, lastCause,
          genCount, sent, resent, uploads, discarded, nClicks>>

\* What one script run leaves on the page about analyze_file / send_to_notion;
\* the next user action reruns the script and these start afresh.
analyzeRun == <<preData, lastOutcome, lastCause, genCount>>

sendRun == <<data_list, count, events, submitResult>>

\* Locals of the two functions; they only change inside them.
analyzeLocals == <<tmp_path, handle_state, remote_state>>

sendLocals == <<i, success_count>>

\* What lasts for the process lifetime.
kept == <<cache, sent, resent, uploads, nClicks>>

CacheKeys == TmpPaths \X MimeTypes

NotCached == [hit |-> FALSE, ret |-> NoneVal]

FreshAnalyzeRun ==
    /\ preData' = NoneVal
    /\ lastOutcome' = Outcome(NoneVal, NoMsg)
    /\ lastCause' = "none"
    /\ genCount' = 0

FreshSendRun ==
    /\ data_list' = << >>
    /\ count' = 0
    /\ events' = << >>
    /\ submitResult' = "none"

\* Lines 139-140 and a fresh process: nothing held, nothing cached.
Init ==
    /\ uploaded_file = NoFile
    /\ analyzed_data = NoneVal
    /\ edited_data = << >>
    /\ cache = [k \in CacheKeys |-> NotCached]
    /\ pc = "idle"
    /\ tmp_path = 0
    /\ handle_state = "NONE"
    /\ remote_state = "NONE"
    /\ data_list = << >>
    /\ i = 1
    /\ success_count = 0
    /\ count = 0
    /\ events = << >>
    /\ submitResult = "none"
    /\ lastAction = "none"
    /\ preData = NoneVal
    /\ lastOutcome = Outcome(NoneVal, NoMsg)
    /\ lastCause = "none"
    /\ genCount = 0
    /\ sent = {}
    /\ resent = FALSE
    /\ uploads = [f \in Files |-> 0]
    /\ discarded = FALSE
    /\ nClicks = 0

\* ------------------------------------------------------- session states
\* Line 169: the record list, the editor and both buttons are shown.
ResultsReady == pc = "idle" /\ Truthy(analyzed_data)

\* No record list is held and no handler runs.  The uploader keeps its file
\* across reruns, so the analyze button may be on offer: FileSelected.
Idle == pc = "idle" /\ ~Truthy(analyzed_data)

FileSelected == Idle /\ uploaded_file # NoFile

Analyzing == pc \in {"upload", "poll"}

Submitting == pc \in {"send", "post"}

\* --------------------------------------------------------- file uploader
\* Line 142: the user picks, replaces or removes the file; the script reruns
\* with no button pressed.
SelectFile(f) ==
    /\ pc = "idle"
    /\ f # uploaded_file
    /\ uploaded_file' = f
    /\ lastAction' = "select"
    /\ FreshAnalyzeRun
    /\ FreshSendRun
    /\ UNCHANGED <<analyzed_data, edited_data, pc, discarded>>
    /\ UNCHANGED <<analyzeLocals, sendLocals, kept>>

\* ---------------------------------------------------------- analyze_file
\* Lines 159-166 once analyze_file has returned `out`: the handler stores a
\* truthy result, unlinks the temp file, and the script goes on to line 169.
HandlerAfter(out, cause) ==
    /\ analyzed_data' = StoreResult(out.ret, analyzed_data)
    /\ edited_data' = IF Truthy(out.ret) THEN out.ret.rows ELSE edited_data
    /\ lastOutcome' = out
    /\ lastCause' = cause
    /\ tmp_path' = 0
    /\ handle_state' = "NONE"
    /\ remote_state' = "NONE"
    /\ pc' = "idle"

\* analyze_file returns from its body: st.cache_data stores the value.
Return(out, cause) ==
    /\ cache' = [cache EXCEPT ![<<tmp_path, MimeOf(uploaded_file)>>] =
                                  [hit |-> TRUE, ret |-> out.ret]]
    /\ HandlerAfter(out, cause)

\* Names the handler's NamedTemporaryFile (lines 152-154) can get: one an
\* earlier run had and unlinked, or a new one.  Names are interchangeable, so
\* the new one is taken to be the lowest not yet used.
UsedPaths == {q \in TmpPaths : \E m \in MimeTypes : cache[<<q, m>>].hit}

ClickCommon(p) ==
    /\ pc = "idle"
    /\ p <= Cardinality(UsedPaths) + 1
    /\ uploaded_file # NoFile
    /\ nClicks < MaxClicks
    /\ nClicks' = nClicks + 1
    /\ lastAction' = "analyze"
    /\ preData' = analyzed_data
    /\ genCount' = 0
    /\ FreshSendRun
    /\ UNCHANGED <<uploaded_file, discarded, sendLocals>>
    /\ UNCHANGED <<sent, resent, uploads>>

\* Lines 150-159, (tmp_path, mime_type) not in the cache: the body starts.
ClickAnalyze(p) ==
    /\ ClickCommon(p)
    /\ ~cache[<<p, MimeOf(uploaded_file)>>].hit
    /\ pc' = "upload"
    /\ tmp_path' = p
    /\ lastOutcome' = Outcome(NoneVal, NoMsg)
    /\ lastCause' = "running"
    /\ UNCHANGED <<analyzed_data, edited_data, cache, handle_state, remote_state>>

\* Lines 150-166, (tmp_path, mime_type) in the cache: the stored result is
\* returned and no remote call is made.
ClickAnalyzeCached(p) ==
    /\ ClickCommon(p)
    /\ cache[<<p, MimeOf(uploaded_file)>>].hit
    /\ HandlerAfter(Outcome(cache[<<p, MimeOf(uploaded_file)>>].ret, NoMsg), "cached")
    /\ UNCHANGED cache

analyzeFrame ==
    /\ UNCHANGED <<uploaded_file, preData, lastAction, discarded>>
    /\ UNCHANGED <<sendRun, sendLocals>>
    /\ UNCHANGED <<sent, resent, nClicks>>

\* Line 39: upload_file returns a handle in state s.
Upload(s) ==
    /\ pc = "upload"
    /\ uploads' = [uploads EXCEPT ![uploaded_file] = @ + 1]
    /\ handle_state' = s
    /\ remote_state' = s
    /\ pc' = "poll"
    /\ UNCHANGED <<analyzed_data, edited_data, cache, tmp_path, lastOutcome,
                   lastCause, genCount>>
    /\ analyzeFrame

\* Line 39: upload_file raises.
UploadRaises(exc) ==
    /\ pc = "upload"
    /\ Return(Catch(exc), CauseOf(exc))
    /\ UNCHANGED <<uploads, genCount>>
    /\ analyzeFrame

\* The remote service finishes processing the uploaded file.
RemoteProgress(s) ==
    /\ pc = "poll"
    /\ remote_state = "PROCESSING"
    /\ s # "PROCESSING"
    /\ remote_state' = s
    /\ UNCHANGED <<analyzed_data, edited_data, cache, pc, tmp_path, handle_state,
                   lastOutcome, lastCause, uploads, genCount>>
    /\ analyzeFrame

\* Lines 42-44: one turn of the loop, get_file returns the current state.
Poll ==
    /\ pc = "poll"
    /\ IsProcessing(handle_state)
    /\ handle_state' = remote_state
    /\ UNCHANGED <<analyzed_data, edited_data, cache, pc, tmp_path, remote_state,
                   lastOutcome, lastCause, uploads, genCount>>
    /\ analyzeFrame

\* Line 44: get_file raises.
PollRaises(exc) ==
    /\ pc = "poll"
    /\ IsProcessing(handle_state)
    /\ Return(Catch(exc), CauseOf(exc))
    /\ UNCHANGED <<uploads, genCount>>
    /\ analyzeFrame

\* Lines 46-48: the loop is left with the handle FAILED.
ProcessingFailed ==
    /\ pc = "poll"
    /\ ~IsProcessing(handle_state)
    /\ IsFailed(handle_state)
    /\ Return(Outcome(NoneVal, FailedMsg), "processing_failed")
    /\ UNCHANGED <<uploads, genCount>>
    /\ analyzeFrame

\* Lines 62-66: the generation request answers with `text`; json.loads
\* returns its value or raises.
Generate(text) ==
    /\ pc = "poll"
    /\ ~IsProcessing(handle_state)
    /\ ~IsFailed(handle_state)
    /\ genCount' = genCount + 1
    /\ IF ParseFails(text)
       THEN Return(Catch("JSONDecodeError"), "malformed")
       ELSE Return(Outcome(Parse(text, nClicks), NoMsg), "ok")
    /\ UNCHANGED uploads
    /\ analyzeFrame

\* Line 62: generate_content raises.
GenerateRaises(exc) ==
    /\ pc = "poll"
    /\ ~IsProcessing(handle_state)
    /\ ~IsFailed(handle_state)
    /\ genCount' = genCount + 1
    /\ Return(Catch(exc), CauseOf(exc))
    /\ UNCHANGED uploads
    /\ analyzeFrame

\* ------------------------------------------------------------ data_editor
RemoveAt(seq, k) == SubSeq(seq, 1, k - 1) \o SubSeq(seq, k + 1, Len(seq))

editFrame ==
    /\ pc = "idle"
    /\ Truthy(analyzed_data)
    /\ nClicks < MaxClicks
    /\ nClicks' = nClicks + 1
    /\ lastAction' = "edit"
    /\ FreshAnalyzeRun
    /\ FreshSendRun
    /\ UNCHANGED <<uploaded_file, analyzed_data, pc, discarded>>
    /\ UNCHANGED <<analyzeLocals, sendLocals>>
    /\ UNCHANGED <<cache, sent, resent, uploads>>

\* Line 173, num_rows="dynamic": the user deletes row k.
EditDeleteRow(k) ==
    /\ editFrame
    /\ k \in 1..Len(edited_data)
    /\ edited_data' = RemoveAt(edited_data, k)

\* Line 173: the user empties the items of row k.
EditClearItems(k) ==
    /\ editFrame
    /\ k \in 1..Len(edited_data)
    /\ edited_data[k].items # Val(<< >>)
    /\ edited_data' = [edited_data EXCEPT ![k].items = Val(<< >>)]

\* Line 173, num_rows="dynamic": the user adds a row of their own.
EditAddRow ==
    /\ editFrame
    /\ edited_data' = Append(edited_data, Row(Undokai, 0, Len(edited_data) + 1))

\* --------------------------------------------------------- send_to_notion
\* status_text.text(...) and progress_bar.progress(...) for row k
Progress(k, item) == [type |-> "progress", i |-> k, body |-> item.event, result |-> 0]

\* requests.post(...) for row k and how it ended: a status code, or -1 when
\* it raised.
Post(k, item, result) ==
    [type |-> "post", i |-> k, body |-> Payload(item), result |-> result]

\* Lines 177-178 and 86-89: the submit button; send_to_notion starts on the
\* rows the editor returned.
ClickSubmit ==
    /\ pc = "idle"
    /\ Truthy(analyzed_data)
    /\ nClicks < MaxClicks
    /\ nClicks' = nClicks + 1
    /\ data_list' = edited_data
    /\ i' = 1
    /\ success_count' = 0
    /\ count' = 0
    /\ events' = << >>
    /\ submitResult' = "running"
    /\ lastAction' = "submit"
    /\ discarded' = FALSE
    /\ pc' = "send"
    /\ FreshAnalyzeRun
    /\ UNCHANGED <<uploaded_file, analyzed_data, edited_data, analyzeLocals>>
    /\ UNCHANGED <<cache, sent, resent, uploads>>

sendFrame ==
    /\ UNCHANGED <<uploaded_file, data_list, lastAction, discarded>>
    /\ UNCHANGED <<analyzeRun, analyzeLocals>>
    /\ UNCHANGED <<cache, uploads, nClicks>>

\* Lines 91-94: the loop takes row i and shows it in the status text and the
\* progress bar.
SendProgress ==
    /\ pc = "send"
    /\ i <= Len(data_list)
    /\ events' = Append(events, Progress(i, data_list[i]))
    /\ pc' = "post"
    /\ UNCHANGED <<analyzed_data, edited_data, i, success_count, count, sent,
                   resent, submitResult>>
    /\ sendFrame

\* Bookkeeping of a create-page call issued for `item`; rows the user added
\* (origin 0) come from no analyzer call.
Issue(item, answered) ==
    /\ sent' = IF answered THEN sent \cup {item.origin} ELSE sent
    /\ resent' = (resent \/ (item.origin[1] > 0 /\ item.origin \in sent))

\* Lines 96-127: the request for row i is built and posted; the remote API
\* answers with a status code.
SendPost(status) ==
    /\ pc = "post"
    /\ events' = Append(events, Post(i, data_list[i], status))
    /\ Issue(data_list[i], TRUE)
    /\ success_count' = IF IsSuccess(status) THEN success_count + 1 ELSE success_count
    /\ i' = i + 1
    /\ pc' = "send"
    /\ UNCHANGED <<analyzed_data, edited_data, count, submitResult>>
    /\ sendFrame

\* Line 125: requests.post raises (connection error, timeout).  Nothing in
\* send_to_notion or the handler catches it: the script run ends there.
SendPostRaises ==
    /\ pc = "post"
    /\ events' = Append(events, Post(i, data_list[i], -1))
    /\ Issue(data_list[i], FALSE)
    /\ submitResult' = "raised"
    /\ i' = 1
    /\ success_count' = 0
    /\ pc' = "idle"
    /\ UNCHANGED <<analyzed_data, edited_data, count>>
    /\ sendFrame

\* The bug of leaving the list in place.
ClearedKept(data) == data

\* st.session_state['analyzed_data'] = None   (lines 181, 184)
Cleared(data) == NoneVal

\* Lines 129-131 and 178-181: the loop is over, send_to_notion returns
\* success_count and the handler clears the list.
SendReturn ==
    /\ pc = "send"
    /\ i > Len(data_list)
    /\ count' = success_count
    /\ submitResult' = "returned"
    /\ analyzed_data' = Cleared(analyzed_data)
    /\ edited_data' = << >>
    /\ i' = 1
    /\ success_count' = 0
    /\ pc' = "idle"
    /\ UNCHANGED <<events, sent, resent>>
    /\ sendFrame

\* Lines 183-185: the discard button clears the list and reruns the script.
ClickDiscard ==
    /\ pc = "idle"
    /\ Truthy(analyzed_data)
    /\ analyzed_data' = Cleared(analyzed_data)
    /\ edited_data' = << >>
    /\ lastAction' = "discard"
    /\ discarded' = TRUE
    /\ nClicks < MaxClicks
    /\ nClicks' = nClicks + 1
    /\ FreshAnalyzeRun
    /\ FreshSendRun
    /\ UNCHANGED <<uploaded_file, pc, analyzeLocals, sendLocals>>
    /\ UNCHANGED <<cache, sent, resent, uploads>>

\* ---------------------------------------------------------- specification
Next ==
    \/ \E f \in Files \cup {NoFile} : SelectFile(f)
    \/ \E p \in TmpPaths : ClickAnalyze(p)
    \/ \E p \in TmpPaths : ClickAnalyzeCached(p)
    \/ \E s \in FileStates : Upload(s)
    \/ \E exc \in Exceptions : UploadRaises(exc)
    \/ \E s \in FileStates : RemoteProgress(s)
    \/ Poll
    \/ \E exc \in Exceptions : PollRaises(exc)
    \/ ProcessingFailed
    \/ \E text \in Responses : Generate(text)
    \/ \E exc \in Exceptions : GenerateRaises(exc)
    \/ \E k \in 1..Len(edited_data) : EditDeleteRow(k)
    \/ \E k \in 1..Len(edited_data) : EditClearItems(k)
    \/ EditAddRow
    \/ ClickSubmit
    \/ SendProgress
    \/ \E status \in StatusCodes : SendPost(status)
    \/ SendPostRaises
    \/ SendReturn
    \/ ClickDiscard

Spec == Init /\ [][Next]_vars

\* The script runs on one thread: a remote call that returns lets the next
\* line run.  Nothing obliges the user to click, the remote service to finish
\* processing, or a call to raise.
Fairness ==
    /\ WF_vars(\E s \in FileStates : Upload(s))
    /\ WF_vars(Poll)
    /\ WF_vars(ProcessingFailed)
    /\ WF_vars(\E text \in Responses : Generate(text))
    /\ WF_vars(SendProgress)
    /\ WF_vars(\E status \in StatusCodes : SendPost(status))
    /\ WF_vars(SendReturn)

LiveSpec == Spec /\ Fairness

\* ------------------------------------------------------------ properties
\* What the remote side did in a call of analyze_file's body that failed.
FailureCauses == {"quota", "processing_failed", "malformed", "unknown"}

AfterAnalyze == lastAction = "analyze" /\ pc = "idle"

AfterSubmit == lastAction = "submit" /\ pc = "idle"

PostEvents == {k \in 1..Len(events) : events[k].type = "post"}

SuccessfulPosts == {k \in PostEvents : events[k].result = HTTP_OK}

\* C1: whenever submit is taken from ResultsReady, once the Sink has finished
\* the record list is empty and the session is back in Idle, whatever the
\* per-row remote outcomes were (success status, non-success status, network
\* failure).
C1_SubmitAlwaysClears ==
    AfterSubmit => (analyzed_data = NoneVal /\ Idle)

\* C2: from ResultsReady, discard clears the record list and returns the
\* session to Idle, and from the discard until the next submit click no
\* create-page call (nor any other step of the Sink) happens.
C2_DiscardClearsWithoutSink ==
    /\ lastAction = "discard" => (analyzed_data = NoneVal /\ Idle)
    /\ discarded => (events = << >> /\ ~Submitting)

\* C2 witness: after a discard a later analysis holds results again and no
\* submit has been clicked yet.
C2_Witness ==
    discarded /\ lastAction = "analyze" /\ ResultsReady

\* C3: for every record sequence given to submit, exactly one create-page call
\* is issued per record, one at a time in input order, a failed call neither
\* prevents nor repeats the calls of the other records, and the progress
\* notification of record k comes after the call of record k-1 and before the
\* call of record k.
C3_OneCallPerRecordInOrder ==
    /\ \A k \in 1..Len(events) :
          /\ events[k].type = (IF k % 2 = 1 THEN "progress" ELSE "post")
          /\ events[k].i = (k + 1) \div 2
          /\ events[k].i <= Len(data_list)
    /\ submitResult \in {"returned", "raised"} => Len(events) = 2 * Len(data_list)

\* C4: submit returns exactly the number of create-page calls that got the
\* success status (failed calls are left out of the count without raising),
\* and submit of the empty sequence returns 0 and issues no call.
C4_ReturnsSuccessCount ==
    /\ submitResult # "raised"
    /\ submitResult = "returned" =>
          /\ count = Cardinality(SuccessfulPosts)
          /\ count \in 0..Len(data_list)
          /\ data_list = << >> => (count = 0 /\ events = << >>)

\* C5: within one process lifetime, analyze actions on the same file with the
\* same media type issue at most one remote upload call (counted here: the
\* calls that returned a handle).
C5_AtMostOneUpload ==
    \A f \in Files : uploads[f] <= 1

\* The outcome of a successful analysis that found zero events.
ZeroEvents == Outcome(List(<< >>), NoMsg)

\* C6: when a remote call of analyze signals quota exhaustion, analyze returns
\* normally with the quota outcome; no other failure gives that outcome, and
\* no failure gives the outcome of a successful analysis with zero events.
C6_QuotaOutcomeDistinct ==
    /\ lastCause = "quota" =>
          (pc = "idle" /\ lastOutcome = Outcome(NoneVal, QuotaMsg))
    /\ lastCause \in FailureCauses \ {"quota"} =>
          lastOutcome # Outcome(NoneVal, QuotaMsg)
    /\ lastCause \in FailureCauses =>
          (lastOutcome # ZeroEvents /\ lastOutcome.msg # NoMsg)
    /\ (lastCause = "ok" /\ lastOutcome.ret = List(<< >>)) => lastOutcome = ZeroEvents

\* C6 witness: an analysis has just ended on a quota signal.
C6_Witness ==
    AfterAnalyze /\ lastCause = "quota"

\* C7 as stated: after an analyze action the session is in ResultsReady only
\* if that analyzer call did not fail, and after a failed call it is in
\* FileSelected with no record list and no submit button, also when results of
\* an earlier analysis were held.
C7_FailureLeavesFileSelected ==
    AfterAnalyze =>
        /\ ResultsReady => lastCause \notin FailureCauses
        /\ lastCause \in FailureCauses => FileSelected

\* C7 amended: a failed analyzer call leaves the record list as it was: with
\* none held before, the session is in FileSelected afterwards; with results
\* of an earlier analysis held, they are still held and shown.  The list is
\* replaced only by a call that did not fail and gave a non-empty result.
C7_FailureKeepsList ==
    AfterAnalyze =>
        /\ lastCause \in FailureCauses =>
              /\ analyzed_data = preData
              /\ ~Truthy(preData) => FileSelected
              /\ Truthy(preData) => ResultsReady
        /\ analyzed_data # preData =>
              /\ lastCause \notin FailureCauses
              /\ Truthy(lastOutcome.ret)
              /\ analyzed_data = lastOutcome.ret

\* C7 witness: an analysis failed while results of an earlier one were held.
C7_Witness ==
    AfterAnalyze /\ lastCause \in FailureCauses /\ Truthy(preData)

\* "、".join as the text it gives: the parts in order, one separator between
\* neighbours.
JoinedText(list) ==
    LET f[k \in 0..Len(list)] ==
            IF k = 0 THEN << >>
            ELSE IF k = 1 THEN list[1]
            ELSE f[k - 1] \o <<SEP>> \o list[k]
    IN  f[Len(list)]

ItemCount(item) == IF item.items.kind = "val" THEN Len(item.items.val) ELSE 0

\* The request the claim describes for `item`.
RequestAsSpecified(item, req) ==
    /\ Len(req.title) = Len(item.event) + 2
    /\ req.title[1] = (IF ItemCount(item) > 0 THEN ICON_BAG ELSE ICON_CAL)
    /\ req.title[2] = SPACE
    /\ SubSeq(req.title, 3, Len(req.title)) = item.event
    /\ req.date = item.date
    /\ req.tags = <<TAG_SCHOOL>>
    /\ req.callout = ITEMS_PREFIX \o
          JoinedText(IF item.items.kind = "val" THEN item.items.val ELSE << >>)
    /\ req.paragraph = NOTE_PREFIX \o
          (IF item.note.kind = "val" THEN item.note.val ELSE << >>)

IsEnsoku(item) ==
    /\ item.event = Ensoku.event
    /\ item.date = Ensoku.date
    /\ item.items = Ensoku.items
    /\ item.note = Null

\* C8: every create-page request has title = icon, space, event name, with
\* the bag icon exactly when items is non-empty, the date verbatim, the fixed
\* tag, the items joined with the separator after the items prefix, and the
\* note (empty when absent or null) after the note prefix; for the 遠足 record
\* the title is '🎒 遠足', the items block '持ち物: 水筒、帽子' and the note
\* block '備考: '.
C8_RequestShape ==
    \A k \in PostEvents :
        /\ RequestAsSpecified(data_list[events[k].i], events[k].body)
        /\ IsEnsoku(data_list[events[k].i]) =>
              /\ events[k].body.title = <<"U+1F392", " ", "U+9060", "U+8DB3">>
              /\ events[k].body.callout =
                    <<"U+6301", "U+3061", "U+7269", ":", " ",
                      "U+6C34", "U+7B52", "U+3001", "U+5E3D", "U+5B50">>
              /\ events[k].body.paragraph = <<"U+5099", "U+8003", ":", " ">>

\* C8 witness: one submission posted the 遠足 record, a record whose items
\* list is empty and a record with neither an items nor a note key.
C8_Witness ==
    /\ \E k \in PostEvents : IsEnsoku(data_list[events[k].i])
    /\ \E k \in PostEvents : data_list[events[k].i].items = Val(<< >>)
    /\ \E k \in PostEvents : data_list[events[k].i].items = Absent

\* C9: no record produced by one analyzer call is sent in two create-page
\* calls, in any sequence of user actions and remote outcomes.
C9_NoRowSentTwice ==
    ~resent

\* C10: the handle is polled while it is processing (the loop is left in that
\* state only by an exception), the generation request is issued at most once
\* and only with the handle out of processing and not failed, a failed handle
\* gives no generation request and no records, and once the remote service
\* has moved the handle out of processing analyze terminates.
C10_PollThenGenerateOnce ==
    /\ [](genCount <= 1)
    /\ [][genCount' > genCount =>
             (pc = "poll" /\ handle_state \in FileStates \ {"PROCESSING", "FAILED"})]_vars
    /\ [][(pc = "poll" /\ handle_state = "PROCESSING" /\ pc' = "idle") =>
             lastCause' \in {"quota", "unknown"}]_vars
    /\ [][(pc = "poll" /\ handle_state = "FAILED") =>
             /\ genCount' = genCount
             /\ pc' = "idle" =>
                   (lastOutcome'.ret = NoneVal /\ lastCause' = "processing_failed")]_vars
    /\ (pc = "poll" /\ remote_state \in {"ACTIVE", "FAILED"}) ~> (pc = "idle")

\* C10 witness: the remote service has finished processing while analyze is
\* still in its polling loop.
C10_Witness ==
    pc = "poll" /\ handle_state = "PROCESSING" /\ remote_state = "ACTIVE"

====
